---- MODULE Spec2Model ----
(***************************************************************************)
(* Model of webhook_push.py: the Docker container monitor that collects    *)
(* container statistics and pushes them to a TRMNL webhook.                *)
(*                                                                         *)
(* Conventions                                                             *)
(*  - a Python dict is a function whose DOMAIN is the set of keys present; *)
(*  - a percentage is kept exactly, as a pair <<num, den>>, and a value    *)
(*    rounded to one decimal is kept in tenths (80.0 is 800);              *)
(*  - a byte count is a little-endian tuple of base-1024 digits, so that   *)
(*    1024**4 and 1024**5 are representable; dividing by 1024.0 moves the  *)
(*    point by one digit and is exact, as it is for a double below 2**53;  *)
(*  - a formatted number "{x:.1f}{unit}" is [whole, tenth, unit].          *)
(***************************************************************************)
EXTENDS Integers, Sequences, FiniteSets, TLC

VARIABLES
    argv,             \* the command line: flag -> value, for the flags given
    files,            \* the file system: path -> parsed JSON content
    environ,          \* os.environ
    args,             \* parser.parse_args() result
    config,           \* load_config() result
    webhook_url,      \* main: webhook_url
    interval,         \* main: interval
    pc,               \* position of main
    exc,              \* exception class caught in the current tick
    engine,           \* what the Docker engine answers in the current tick
    containers_list,  \* collect_docker_data: containers_list
    idx,              \* collect_docker_data: position of the for loop
    container_info,   \* collect_docker_data: container_info being built
    containers_data,  \* collect_docker_data: containers_data
    data,             \* main: data
    posts,            \* POSTs issued in the current tick, with their outcome
    bytes_value,      \* format_bytes: argument
    formatted         \* format_bytes: result

inputVars == <<argv, files, environ>>
settingVars == <<args, config, webhook_url, interval>>
collectVars == <<containers_list, idx, container_info, containers_data>>
tickVars == <<exc, engine, data, posts>>
formatVars == <<bytes_value, formatted>>
vars == <<argv, files, environ, args, config, webhook_url, interval, pc, exc,
          engine, containers_list, idx, container_info, containers_data, data,
          posts, bytes_value, formatted>>

----------------------------------------------------------------------------
(* Bounds of the model *)

\* containers the engine may hold in one tick
MaxContainers == 2
\* base-1024 digits of a byte count given to format_bytes
MaxDigits == 6

----------------------------------------------------------------------------
(* Python values *)

None == "<None>"
NoData == "<unset>"
EmptyDict == [k \in {} |-> None]

\* dict.get(key, default)
Get(d, key, default) == IF key \in DOMAIN d THEN d[key] ELSE default

\* dict.update(other): keys of other win
Update(d, other) ==
    [k \in DOMAIN d \cup DOMAIN other |-> IF k \in DOMAIN other THEN other[k] ELSE d[k]]

\* truth value of an optional string
Truthy(v) == v \notin {None, ""}

\* a or b or c
Or3(a, b, c) == IF Truthy(a) THEN a ELSE IF Truthy(b) THEN b ELSE c

----------------------------------------------------------------------------
(* Formatter: format_bytes *)

Base == 1024

Digit(ds, i) == IF i \in DOMAIN ds THEN ds[i] ELSE 0

\* the digits of a non-negative integer below 1024**4
ToDigits(n) ==
    <<n % Base, (n \div Base) % Base, (n \div (Base * Base)) % Base,
      n \div (Base * Base * Base)>>

\* bytes_value < 1024.0 after k divisions by 1024.0
Below1024(ds, k) == \A i \in DOMAIN ds : i > k + 1 => ds[i] = 0

\* integer part of the value after k divisions
RECURSIVE WholeFrom(_, _)
WholeFrom(ds, i) ==
    IF i > Len(ds) THEN 0 ELSE ds[i] + Base * WholeFrom(ds, i + 1)

\* ten times the fraction held in the i low digits, by long multiplication:
\* carry is its integer part (0..9); top is the leading digit of what remains
\* and low says whether a lower digit of the remainder is non-zero
RECURSIVE TimesTen(_, _)
TimesTen(ds, i) ==
    IF i = 0 THEN [carry |-> 0, top |-> 0, low |-> FALSE]
    ELSE LET p == TimesTen(ds, i - 1)
             t == 10 * Digit(ds, i) + p.carry
         IN  [carry |-> t \div Base, top |-> t % Base, low |-> p.low \/ p.top # 0]

\* f"{bytes_value:.1f}" after k divisions: correctly rounded, ties to even
OneDecimal(ds, k) ==
    LET m == TimesTen(ds, k)
        whole == WholeFrom(ds, k + 1)
        above == m.top > Base \div 2 \/ (m.top = Base \div 2 /\ m.low)
        tie == m.top = Base \div 2 /\ ~m.low
        tenth == m.carry + (IF above \/ (tie /\ m.carry % 2 = 1) THEN 1 ELSE 0)
    IN  IF tenth = 10 THEN [whole |-> whole + 1, tenth |-> 0]
        ELSE [whole |-> whole, tenth |-> tenth]

\* faulty variant of Units: the list one short, TB reached a division early
UnitsWithoutGB == <<"B", "KB", "MB">>

Units == <<"B", "KB", "MB", "GB">>

Rendered(ds, k, unit) ==
    LET v == OneDecimal(ds, k) IN [whole |-> v.whole, tenth |-> v.tenth, unit |-> unit]

\* the for loop of format_bytes, entered at unit i with i - 1 divisions done
RECURSIVE format_bytes_from(_, _)
format_bytes_from(ds, i) ==
    IF i > Len(Units) THEN Rendered(ds, Len(Units), "TB")
    ELSE IF Below1024(ds, i - 1) THEN Rendered(ds, i - 1, Units[i])
    ELSE format_bytes_from(ds, i + 1)

format_bytes(ds) == format_bytes_from(ds, 1)

----------------------------------------------------------------------------
(* Formatter: format_uptime *)

\* started_at is [parses, elapsed]: whether datetime.fromisoformat accepts the
\* text, and the minutes between the start instant and now.
\* the result "{a}d {b}h", "{a}h {b}m", "{a}m" or "unknown" is [form, a, b]
Uptime(form, a, b) == [form |-> form, a |-> a, b |-> b]
UnknownUptime == Uptime("unknown", 0, 0)

format_uptime(started_at) ==
    IF ~started_at.parses THEN UnknownUptime
    ELSE LET days == started_at.elapsed \div 1440
             hours == (started_at.elapsed % 1440) \div 60
             minutes == started_at.elapsed % 60
         IN  IF days > 0 THEN Uptime("{}d {}h", days, hours)
             ELSE IF hours > 0 THEN Uptime("{}h {}m", hours, minutes)
             ELSE Uptime("{}m", minutes, 0)

----------------------------------------------------------------------------
(* StatsSampler and AlertEvaluator: get_container_stats *)

\* a percentage as an exact fraction
Pct(num, den) == [num |-> num, den |-> den]
ZeroPct == Pct(0, 1)

\* pct >= threshold, threshold an integer
AtLeast(pct, threshold) == pct.num >= threshold * pct.den

\* round(pct, 1) and f"{pct:.1f}", in tenths: nearest, ties to even
RoundTenths(pct) ==
    LET q == (10 * pct.num) \div pct.den
        r == (10 * pct.num) % pct.den
    IN  IF 2 * r > pct.den \/ (2 * r = pct.den /\ q % 2 = 1) THEN q + 1 ELSE q

\* the reads of lines 60-89 raise: the engine call fails, or a key read with
\* [] is missing from either sample
SamplingRaises(reading) ==
    \/ reading.raises
    \/ \E s \in {reading.stats1, reading.stats} :
          \/ "cpu_stats" \notin DOMAIN s
          \/ "cpu_usage" \notin DOMAIN s.cpu_stats
          \/ "total_usage" \notin DOMAIN s.cpu_stats.cpu_usage
          \/ "system_cpu_usage" \notin DOMAIN s.cpu_stats
    \/ "memory_stats" \notin DOMAIN reading.stats

cpu_percent_of(reading) ==
    LET stats1 == reading.stats1
        stats == reading.stats
        cpu_delta == stats.cpu_stats.cpu_usage.total_usage
                       - stats1.cpu_stats.cpu_usage.total_usage
        system_delta == stats.cpu_stats.system_cpu_usage
                          - stats1.cpu_stats.system_cpu_usage
        num_cpus == Get(stats.cpu_stats, "online_cpus",
                        Len(Get(stats.cpu_stats.cpu_usage, "percpu_usage", <<1>>)))
    IN  IF system_delta > 0 /\ cpu_delta >= 0
        THEN Pct(cpu_delta * num_cpus * 100, system_delta)
        ELSE ZeroPct

memory_usage_of(reading) == Get(reading.stats.memory_stats, "usage", 0)

memory_percent_of(reading) ==
    LET memory_usage == memory_usage_of(reading)
        memory_limit == Get(reading.stats.memory_stats, "limit", 1)
    IN  IF memory_limit > 0 THEN Pct(memory_usage * 100, memory_limit) ELSE ZeroPct

RECURSIVE SumOver(_, _, _)
SumOver(networks, interfaces, key) ==
    IF interfaces = {} THEN 0
    ELSE LET i == CHOOSE i \in interfaces : TRUE
         IN  Get(networks[i], key, 0) + SumOver(networks, interfaces \ {i}, key)

network_total(reading, key) ==
    IF "networks" \in DOMAIN reading.stats
    THEN SumOver(reading.stats.networks, DOMAIN reading.stats.networks, key)
    ELSE 0

CpuAlert(cpu_percent) == [about |-> "High CPU usage", tenths |-> RoundTenths(cpu_percent)]
MemoryAlert(memory_percent) ==
    [about |-> "High memory usage", tenths |-> RoundTenths(memory_percent)]

\* faulty variant of CpuAlertFires: a strict comparison
CpuAlertFiresStrict(cpu_percent, cpu_threshold) ==
    cpu_percent.num > cpu_threshold * cpu_percent.den

\* lines 91-101
CpuAlertFires(cpu_percent, cpu_threshold) == AtLeast(cpu_percent, cpu_threshold)
MemoryAlertFires(memory_percent, memory_threshold) ==
    AtLeast(memory_percent, memory_threshold)

alerts_of(cpu_percent, memory_percent, cpu_threshold, memory_threshold) ==
    (IF CpuAlertFires(cpu_percent, cpu_threshold)
     THEN <<CpuAlert(cpu_percent)>> ELSE <<>>)
    \o (IF MemoryAlertFires(memory_percent, memory_threshold)
        THEN <<MemoryAlert(memory_percent)>> ELSE <<>>)

\* faulty variant of has_alert_of: the memory branch appends its message and
\* leaves the flag alone
has_alert_cpu_only(cpu_percent, memory_percent, cpu_threshold, memory_threshold) ==
    CpuAlertFires(cpu_percent, cpu_threshold)

has_alert_of(cpu_percent, memory_percent, cpu_threshold, memory_threshold) ==
    \/ CpuAlertFires(cpu_percent, cpu_threshold)
    \/ MemoryAlertFires(memory_percent, memory_threshold)

\* faulty variant of SamplingFailed: the except branch reports the failure as
\* an alert
SamplingFailedAsAlert ==
    [cpu_percent |-> 0, memory_percent |-> 0, has_alert |-> TRUE,
     alert_messages |-> <<[about |-> "High CPU usage", tenths |-> 0]>>]

\* lines 112-118: the except branch
SamplingFailed ==
    [cpu_percent |-> 0, memory_percent |-> 0, has_alert |-> FALSE,
     alert_messages |-> <<>>]

get_container_stats(container, cpu_threshold, memory_threshold) ==
    IF SamplingRaises(container.reading) THEN SamplingFailed
    ELSE LET cpu_percent == cpu_percent_of(container.reading)
             memory_percent == memory_percent_of(container.reading)
         IN  [cpu_percent |-> RoundTenths(cpu_percent),
              memory_percent |-> RoundTenths(memory_percent),
              memory_usage |-> format_bytes(ToDigits(memory_usage_of(container.reading))),
              network_rx |-> format_bytes(ToDigits(network_total(container.reading, "rx_bytes"))),
              network_tx |-> format_bytes(ToDigits(network_total(container.reading, "tx_bytes"))),
              has_alert |-> has_alert_of(cpu_percent, memory_percent,
                                         cpu_threshold, memory_threshold),
              alert_messages |-> alerts_of(cpu_percent, memory_percent,
                                           cpu_threshold, memory_threshold)]

----------------------------------------------------------------------------
(* The container engine: what the Docker API answers during one tick *)

\* one stats(stream=False) answer
Sample(cpu_usage, system_cpu_usage, cpu_extra, memory_stats, rest) ==
    Update([cpu_stats |-> Update([cpu_usage |-> cpu_usage,
                                  system_cpu_usage |-> system_cpu_usage], cpu_extra),
            memory_stats |-> memory_stats], rest)

Usage(total_usage) == [total_usage |-> total_usage]
Eth(rx, tx) == [rx_bytes |-> rx, tx_bytes |-> tx]

Reading(stats1, stats) == [raises |-> FALSE, stats1 |-> stats1, stats |-> stats]

\* idle container, no memory figures reported: 0.0 % and 0.0 %
ReadingIdle ==
    Reading(Sample(Usage(500), 9000, EmptyDict, EmptyDict, EmptyDict),
            Sample(Usage(500), 9000, EmptyDict, EmptyDict, EmptyDict))
\* cpu 200/1000 on 4 cpus = 80.0 % exactly; memory limit 0
ReadingCpuAtThreshold ==
    Reading(Sample(Usage(100), 5000, [online_cpus |-> 4],
                   [usage |-> 1536, limit |-> 0], EmptyDict),
            Sample(Usage(300), 6000, [online_cpus |-> 4],
                   [usage |-> 1536, limit |-> 0],
                   [networks |-> [eth0 |-> Eth(1024, 1536)]]))
\* cpu 1999/10000 on 4 cpus = 79.96 %, memory 1740/2048 = 84.96 %
ReadingJustBelow ==
    Reading(Sample(Usage(0), 0, EmptyDict, [usage |-> 1740, limit |-> 2048], EmptyDict),
            Sample([total_usage |-> 1999, percpu_usage |-> <<500, 500, 500, 499>>],
                   10000, EmptyDict, [usage |-> 1740, limit |-> 2048], EmptyDict))
\* cpu 10.0 %, memory 87040/102400 = 85.0 % exactly
ReadingMemoryAtThreshold ==
    Reading(Sample(Usage(0), 0, [online_cpus |-> 1],
                   [usage |-> 87040, limit |-> 102400], EmptyDict),
            Sample(Usage(100), 1000, [online_cpus |-> 1],
                   [usage |-> 87040, limit |-> 102400],
                   [networks |-> [eth0 |-> Eth(1023, 0), eth1 |-> [rx_bytes |-> 1]]]))
\* cpu 90.0 % on the default single cpu, memory 90.0 %
ReadingBothHigh ==
    Reading(Sample(Usage(0), 0, EmptyDict, [usage |-> 90, limit |-> 100], EmptyDict),
            Sample(Usage(9), 10, EmptyDict, [usage |-> 90, limit |-> 100], EmptyDict))
\* the container stopped between the two samples: no system_cpu_usage
ReadingVanished ==
    Reading(Sample(Usage(100), 5000, EmptyDict, [usage |-> 90, limit |-> 100], EmptyDict),
            [cpu_stats |-> [cpu_usage |-> Usage(0)], memory_stats |-> EmptyDict])
\* the stats call itself fails
ReadingEngineError == [raises |-> TRUE]

Readings ==
    {ReadingIdle, ReadingCpuAtThreshold, ReadingJustBelow, ReadingMemoryAtThreshold,
     ReadingBothHigh, ReadingVanished, ReadingEngineError}

ShortIds == <<"abc123", "def456", "ghi789", "jkl012">>
Names == <<"web", "db", "cache", "api">>
ImageTags == <<(<<"nginx:alpine">>), <<>>, <<"redis:7", "redis:latest">>, <<"node:20">>>>
ImageIds == <<"sha256:aa", "sha256:bb", "sha256:cc", "sha256:dd">>
StartedAt ==
    <<[parses |-> TRUE, elapsed |-> 90], [parses |-> FALSE],
      [parses |-> TRUE, elapsed |-> 3060], [parses |-> TRUE, elapsed |-> 30]>>

\* the attrs of container i: the second one reports no RestartCount
AttrsOf(i, status) ==
    LET state == IF status = "running" THEN [State |-> [StartedAt |-> StartedAt[i]]]
                 ELSE [State |-> EmptyDict]
    IN  IF i = 2 THEN state ELSE Update(state, [RestartCount |-> i - 1])

\* the handle client.containers.list() returns for container i
Container(i, state) ==
    [short_id |-> ShortIds[i], name |-> Names[i], status |-> state.status,
     image |-> [tags |-> ImageTags[i], short_id |-> ImageIds[i]],
     attrs |-> AttrsOf(i, state.status), reading |-> state.reading]

\* a container that is not running is never sampled
Absent == [status |-> "absent", reading |-> ReadingEngineError]
Exited == [status |-> "exited", reading |-> ReadingEngineError]
Running(reading) == [status |-> "running", reading |-> reading]

ContainerStates == {Absent, Exited} \cup {Running(r) : r \in Readings}

\* the engine holds containers 1..MaxContainers, each absent, exited or running
Engines == [1..MaxContainers -> ContainerStates]
NoEngine == <<>>

\* client.containers.list(all=show_stopped), in the engine's order
RECURSIVE ListFrom(_, _, _)
ListFrom(e, i, show_stopped) ==
    IF i > Len(e) THEN <<>>
    ELSE (IF e[i].status = "running" \/ (e[i].status = "exited" /\ show_stopped)
          THEN <<Container(i, e[i])>> ELSE <<>>)
         \o ListFrom(e, i + 1, show_stopped)

CountStatus(e, statuses) == Cardinality({i \in DOMAIN e : e[i].status \in statuses})

\* client.info()
InfoOf(e) ==
    [ServerVersion |-> "24.0.7",
     Containers |-> CountStatus(e, {"running", "exited"}),
     ContainersRunning |-> CountStatus(e, {"running"}),
     ContainersPaused |-> 0,
     ContainersStopped |-> CountStatus(e, {"exited"})]

----------------------------------------------------------------------------
(* Configuration: parse_args and load_config *)

DefaultInterval == 30

\* parser.parse_args(): a flag that is not given takes its default
parse_args(line) ==
    [webhook_url |-> Get(line, "--webhook-url", None),
     config |-> Get(line, "--config", None),
     loop |-> "--loop" \in DOMAIN line,
     interval |-> Get(line, "--interval", DefaultInterval),
     demo |-> "--demo" \in DOMAIN line]

env_mapping ==
    [TRMNL_WEBHOOK_URL |-> "webhook_url", DOCKER_HOST |-> "docker_host",
     DOCKER_API_VERSION |-> "docker_api_version", SHOW_STOPPED |-> "show_stopped",
     CPU_THRESHOLD |-> "cpu_threshold", MEMORY_THRESHOLD |-> "memory_threshold",
     SORT_BY |-> "sort_by", SORT_ORDER |-> "sort_order"]

\* str.lower() and int(), on the strings the environment holds here
Lower(v) == CASE v = "TRUE" -> "true" [] v = "Yes" -> "yes" [] OTHER -> v
ParseInt(v) == CASE v = "90" -> 90 [] v = "85" -> 85 [] v = "80" -> 80 [] v = "50" -> 50

\* lines 348-354
Converted(config_key, value) ==
    IF config_key = "show_stopped" THEN Lower(value) \in {"true", "1", "yes"}
    ELSE IF config_key \in {"cpu_threshold", "memory_threshold"} THEN ParseInt(value)
    ELSE value

load_config(config_file, fs, env) ==
    LET loaded == IF Truthy(config_file) /\ config_file \in DOMAIN fs
                  THEN fs[config_file] ELSE EmptyDict
        present == {v \in DOMAIN env_mapping : v \in DOMAIN env}
        keys == {env_mapping[v] : v \in present}
        var(k) == CHOOSE v \in present : env_mapping[v] = k
    IN  Update(loaded, [k \in keys |-> Converted(k, env[var(k)])])

\* line 399
resolve_webhook_url(a, c, env) ==
    Or3(a.webhook_url, Get(c, "webhook_url", None), Get(env, "TRMNL_WEBHOOK_URL", None))

\* line 406
resolve_interval(a, c) == Get(c, "refresh_interval", a.interval)

\* main, lines 393-406
Startup ==
    /\ pc = "start"
    /\ LET a == parse_args(argv)
           c == load_config(a.config, files, environ)
           url == resolve_webhook_url(a, c, environ)
       IN  /\ args' = a
           /\ config' = c
           /\ webhook_url' = url
           /\ IF ~Truthy(url)
              THEN pc' = "exit(1)" /\ UNCHANGED interval
              ELSE pc' = "tick" /\ interval' = resolve_interval(a, c)
    /\ UNCHANGED <<inputVars, collectVars, tickVars, formatVars>>

----------------------------------------------------------------------------
(* Aggregator: collect_docker_data *)

NoInfo == EmptyDict

\* where main goes when the tick is over: lines 450-457
AfterTick == IF args.loop THEN "sleep" ELSE "done"

\* an exception leaves collect_docker_data: its frame is gone, and main's
\* handler for the class runs (lines 436 and 446)
Raise(class) ==
    /\ exc' = class
    /\ containers_list' = <<>>
    /\ idx' = 0
    /\ container_info' = NoInfo
    /\ containers_data' = <<>>
    /\ pc' = IF class = "DockerException" THEN "docker_error" ELSE AfterTick

\* lines 229-247: the settings, the client, info() and the container list
StartCollect ==
    /\ pc = "tick"
    /\ ~args.demo
    /\ \E e \in Engines, raised \in {"none", "DockerException", "Exception"} :
          /\ engine' = e
          /\ IF raised # "none" THEN Raise(raised)
             ELSE /\ containers_list' = ListFrom(e, 1, Get(config, "show_stopped", FALSE))
                  /\ idx' = 1
                  /\ containers_data' = <<>>
                  /\ pc' = "container"
                  /\ UNCHANGED <<container_info, exc>>
    /\ UNCHANGED <<inputVars, settingVars, data, posts, formatVars>>

\* lines 269-274
NotRunning ==
    [cpu_percent |-> 0, memory_percent |-> 0, has_alert |-> FALSE,
     alert_messages |-> <<>>]

\* lines 250-258
InfoOfContainer(container) ==
    [id |-> container.short_id,
     name |-> container.name,
     status |-> container.status,
     image |-> IF container.image.tags # <<>> THEN container.image.tags[1]
               ELSE container.image.short_id,
     restart_count |-> Get(container.attrs, "RestartCount", 0)]

\* lines 248-261 and 268-276: one pass of the for loop up to the uptime, or
\* the whole pass for a container that is not running
BuildInfo ==
    /\ pc = "container"
    /\ idx <= Len(containers_list)
    /\ \E raised \in {"none", "DockerException", "Exception"} :
          IF raised # "none" THEN Raise(raised)
          ELSE LET container == containers_list[idx]
                   info == InfoOfContainer(container)
               IN  /\ IF container.status = "running"
                      THEN /\ container_info' = info
                           /\ pc' = "uptime"
                           /\ UNCHANGED <<idx, containers_data>>
                      ELSE /\ containers_data' =
                                Append(containers_data, Update(info, NotRunning))
                           /\ idx' = idx + 1
                           /\ container_info' = NoInfo
                           /\ pc' = "container"
                   /\ UNCHANGED <<containers_list, exc>>
    /\ UNCHANGED <<inputVars, settingVars, engine, data, posts, formatVars>>

\* lines 262-263
FormatUptime ==
    /\ pc = "uptime"
    /\ LET started_at == containers_list[idx].attrs.State.StartedAt
       IN  container_info' = Update(container_info, [uptime |-> format_uptime(started_at)])
    /\ pc' = "sample"
    /\ UNCHANGED <<inputVars, settingVars, exc, engine, containers_list, idx,
                   containers_data, data, posts, formatVars>>

\* lines 232-233; the values are integers already, from JSON or load_config
CpuThreshold == Get(config, "cpu_threshold", 80)
MemoryThreshold == Get(config, "memory_threshold", 85)

\* lines 266-267 and 276
SampleStats ==
    /\ pc = "sample"
    /\ LET stats == get_container_stats(containers_list[idx], CpuThreshold,
                                        MemoryThreshold)
       IN  containers_data' = Append(containers_data, Update(container_info, stats))
    /\ idx' = idx + 1
    /\ container_info' = NoInfo
    /\ pc' = "container"
    /\ UNCHANGED <<inputVars, settingVars, exc, engine, containers_list, data, posts,
                   formatVars>>

\* the order of str values, for the keys 'name' and 'status'
StrOrder == <<"", "api", "cache", "db", "exited", "running", "web">>
Rank(str) == CHOOSE k \in DOMAIN StrOrder : StrOrder[k] = str

\* lines 280-287: the key of the sort, or no sort at all
SortKey(x, sort_by) ==
    CASE sort_by = "cpu" -> Get(x, "cpu_percent", 0)
      [] sort_by = "memory" -> Get(x, "memory_percent", 0)
      [] sort_by = "name" -> Rank(Get(x, "name", ""))
      [] sort_by = "status" -> Rank(Get(x, "status", ""))

\* x goes after the elements that do not sort after it: a stable insertion
RECURSIVE Insert(_, _, _, _)
Insert(sorted, x, sort_by, reverse) ==
    IF sorted = <<>> THEN <<x>>
    ELSE LET last == sorted[Len(sorted)]
             before == IF reverse
                       THEN SortKey(x, sort_by) > SortKey(last, sort_by)
                       ELSE SortKey(x, sort_by) < SortKey(last, sort_by)
         IN  IF before
             THEN Append(Insert(SubSeq(sorted, 1, Len(sorted) - 1), x, sort_by, reverse),
                         last)
             ELSE Append(sorted, x)

RECURSIVE StableSort(_, _, _)
StableSort(seq, sort_by, reverse) ==
    IF seq = <<>> THEN <<>>
    ELSE Insert(StableSort(SubSeq(seq, 1, Len(seq) - 1), sort_by, reverse),
                seq[Len(seq)], sort_by, reverse)

Sorted(seq, sort_by, sort_order) ==
    IF sort_by \in {"cpu", "memory", "name", "status"}
    THEN StableSort(seq, sort_by, sort_order = "desc")
    ELSE seq

\* psutil: the host's cpu and memory use, in tenths of a percent
Host == [cpu_percent |-> 37, memory_percent |-> 412]

\* lines 290-302
Response(containers, info) ==
    [containers |-> containers,
     system |-> [docker_version |-> Get(info, "ServerVersion", "unknown"),
                 containers_total |-> Get(info, "Containers", 0),
                 containers_running |-> Get(info, "ContainersRunning", 0),
                 containers_paused |-> Get(info, "ContainersPaused", 0),
                 containers_stopped |-> Get(info, "ContainersStopped", 0),
                 cpu_percent |-> Host.cpu_percent,
                 memory_percent |-> Host.memory_percent],
     last_update |-> "now"]

\* lines 278-302: the for loop is over; sort, build the response, return it
FinishCollect ==
    /\ pc = "container"
    /\ idx > Len(containers_list)
    /\ data' = Response(Sorted(containers_data, Get(config, "sort_by", "cpu"),
                               Get(config, "sort_order", "desc")),
                        InfoOf(engine))
    /\ containers_list' = <<>>
    /\ idx' = 0
    /\ container_info' = NoInfo
    /\ containers_data' = <<>>
    /\ pc' = "push"
    /\ UNCHANGED <<inputVars, settingVars, exc, engine, posts, formatVars>>

----------------------------------------------------------------------------
(* The demo fixture: get_demo_data *)

Str(whole, tenth, unit) == [whole |-> whole, tenth |-> tenth, unit |-> unit]

DemoMetrics(cpu, mem, usage, rx, tx, has_alert, alert_messages) ==
    [cpu_percent |-> cpu, memory_percent |-> mem, memory_usage |-> usage,
     network_rx |-> rx, network_tx |-> tx, has_alert |-> has_alert,
     alert_messages |-> alert_messages]

DemoContainer(id, name, image, status, uptime, metrics) ==
    Update([id |-> id, name |-> name, image |-> image, status |-> status,
            uptime |-> uptime], metrics)

\* lines 124-213: only the first record carries restart_count
DemoContainers ==
    <<Update(DemoContainer("abc123def456", "nginx-web", "nginx:alpine", "running",
                           Uptime("{}d {}h", 3, 5),
                           DemoMetrics(125, 83, Str(256, 0, "MB"), Str(1, 2, "GB"),
                                       Str(856, 0, "MB"), FALSE, <<>>)),
             [restart_count |-> 0]),
      DemoContainer("def456ghi789", "postgres-db", "postgres:15-alpine", "running",
                    Uptime("{}d {}h", 7, 12),
                    DemoMetrics(258, 421, Str(1, 3, "GB"), Str(5, 8, "GB"),
                                Str(3, 2, "GB"), FALSE, <<>>)),
      DemoContainer("ghi789jkl012", "redis-cache", "redis:7-alpine", "running",
                    Uptime("{}d {}h", 5, 8),
                    DemoMetrics(52, 156, Str(468, 0, "MB"), Str(2, 1, "GB"),
                                Str(1, 8, "GB"), FALSE, <<>>)),
      DemoContainer("jkl012mno345", "api-backend", "node:20-alpine", "running",
                    Uptime("{}d {}h", 1, 3),
                    DemoMetrics(853, 689, Str(2, 1, "GB"), Str(892, 0, "MB"),
                                Str(1, 5, "GB"), TRUE,
                                <<[about |-> "High CPU usage", tenths |-> 853],
                                  [about |-> "High memory usage", tenths |-> 689]>>)),
      DemoContainer("mno345pqr678", "grafana", "grafana/grafana:latest", "running",
                    Uptime("{}d {}h", 10, 2),
                    DemoMetrics(87, 224, Str(672, 0, "MB"), Str(3, 4, "GB"),
                                Str(2, 9, "GB"), FALSE, <<>>)),
      DemoContainer("vwx234yza567", "elasticsearch", "elasticsearch:8.10.0", "exited",
                    Uptime("0", 0, 0),
                    DemoMetrics(0, 0, Str(0, 0, "B"), Str(12, 0, "GB"),
                                Str(8, 5, "GB"), FALSE, <<>>))>>

get_demo_data ==
    [containers |-> DemoContainers,
     system |-> [docker_version |-> "24.0.7", containers_total |-> 10,
                 containers_running |-> 9, containers_paused |-> 0,
                 containers_stopped |-> 1, cpu_percent |-> Host.cpu_percent,
                 memory_percent |-> Host.memory_percent],
     last_update |-> "now"]

----------------------------------------------------------------------------
(* WebhookPublisher: push_to_webhook *)

Response_(status) == [kind |-> "response", status |-> status, class |-> "none"]
Raised(class) == [kind |-> "exception", status |-> 0, class |-> class]

\* what requests.post does: a final response (a redirect that names no
\* Location, such as 304, is final too), an exception of the requests
\* hierarchy, or an exception outside it (OSError: the CA bundle named by
\* REQUESTS_CA_BUNDLE is not a file)
PostOutcomes ==
    {Response_(200), Response_(204), Response_(304), Response_(404), Response_(500),
     Raised("Timeout"), Raised("ConnectionError"), Raised("OSError")}

\* requests.exceptions.RequestException and its subclasses
RequestExceptions == {"HTTPError", "ConnectionError", "Timeout"}

\* Response.raise_for_status(): HTTPError for a 4xx or 5xx status
raise_for_status(outcome) ==
    IF 400 <= outcome.status /\ outcome.status < 600 THEN "HTTPError" ELSE "none"

\* the exception the try block of push_to_webhook ends with, or "none"
PostException(outcome) ==
    IF outcome.kind = "exception" THEN outcome.class ELSE raise_for_status(outcome)

\* lines 307-321: "True", "False", or "raised" when the exception is not one
\* that line 319 catches
push_to_webhook(outcome) ==
    LET e == PostException(outcome)
    IN  IF e = "none" THEN "True"
        ELSE IF e \in RequestExceptions THEN "False"
        ELSE "raised"

Post(payload, outcome) ==
    [url |-> webhook_url, payload |-> payload, outcome |-> outcome,
     returned |-> push_to_webhook(outcome)]

----------------------------------------------------------------------------
(* PollLoop: the while loop of main *)

\* lines 418-419, demo mode
GetDemoData ==
    /\ pc = "tick"
    /\ args.demo
    /\ \E raised \in {"none", "Exception"} :
          IF raised # "none"
          THEN exc' = raised /\ pc' = AfterTick /\ UNCHANGED data
          ELSE data' = get_demo_data /\ pc' = "push" /\ UNCHANGED exc
    /\ UNCHANGED <<inputVars, settingVars, engine, collectVars, posts, formatVars>>

\* lines 428-434: an exception of push_to_webhook is caught at line 446
Push ==
    /\ pc = "push"
    /\ \E outcome \in PostOutcomes :
          /\ posts' = Append(posts, Post(data, outcome))
          /\ exc' = IF push_to_webhook(outcome) = "raised" THEN "Exception" ELSE exc
    /\ pc' = AfterTick
    /\ UNCHANGED <<inputVars, settingVars, engine, collectVars, data, formatVars>>

\* lines 437-441
error_data ==
    [error |-> [message |-> "Docker connection failed"],
     containers |-> <<>>,
     system |-> EmptyDict]

\* lines 436-444: the handler of DockerException. An exception raised in an
\* except clause is not handled by the clauses beside it: it leaves the inner
\* try, and the outer try catches KeyboardInterrupt only
PushHeartbeat ==
    /\ pc = "docker_error"
    /\ \E outcome \in PostOutcomes :
          /\ posts' = Append(posts, Post(error_data, outcome))
          /\ pc' = IF push_to_webhook(outcome) = "raised" THEN "crashed" ELSE AfterTick
    /\ UNCHANGED <<inputVars, settingVars, exc, engine, collectVars, data, formatVars>>

\* line 457 returns: the next pass of while True starts with nothing kept
Wake ==
    /\ pc = "sleep"
    /\ pc' = "tick"
    /\ exc' = "none"
    /\ engine' = NoEngine
    /\ data' = NoData
    /\ posts' = <<>>
    /\ UNCHANGED <<inputVars, settingVars, collectVars, formatVars>>

\* faulty variant of Interruptible: the signal is looked at during the sleep
\* only
InterruptibleAsleep == {"sleep"}

\* where a KeyboardInterrupt reaches line 459
Interruptible == {"tick", "container", "uptime", "sample", "push", "docker_error", "sleep"}

\* lines 459-462: SIGINT arrives; no handler inside the loop catches
\* KeyboardInterrupt, the call in flight is abandoned, sys.exit(0)
Interrupt ==
    /\ pc \in Interruptible
    /\ pc' = "stopped"
    /\ UNCHANGED <<inputVars, settingVars, tickVars, collectVars, formatVars>>

\* lines 28-43: SIGINT arrives inside the try of format_uptime, whose bare
\* except catches KeyboardInterrupt as well
InterruptInFormatUptime ==
    /\ pc = "uptime"
    /\ container_info' = Update(container_info, [uptime |-> UnknownUptime])
    /\ pc' = "sample"
    /\ UNCHANGED <<inputVars, settingVars, exc, engine, containers_list, idx,
                   containers_data, data, posts, formatVars>>

----------------------------------------------------------------------------
(* Formatter on its own: format_bytes applied to one byte count *)

FormatBytes ==
    /\ pc = "format_bytes"
    /\ formatted' = format_bytes(bytes_value)
    /\ pc' = "formatted"
    /\ UNCHANGED <<inputVars, settingVars, tickVars, collectVars, bytes_value>>

----------------------------------------------------------------------------
(* Initial states *)

\* the dicts with the key absent or bound to one of the values
Opt(key, values) == {EmptyDict} \cup {[k \in {key} |-> v] : v \in values}
Both(S, T) == {Update(a, b) : a \in S, b \in T}

Input(line, fs, env) == [argv |-> line, files |-> fs, environ |-> env]

Flag(name) == [k \in {name} |-> None]
Url(flag) == [k \in {"--webhook-url"} |-> flag]

\* the runs of the loop: every mode, every sort key, each source of the URL
LoopInputs ==
    {Input(Update(Url("https://flag"), Flag("--loop")), EmptyDict, EmptyDict),
     Input(Update([k \in {"--config"} |-> "cfg.json"], Flag("--loop")),
           [f \in {"cfg.json"} |->
               [webhook_url |-> "https://file", show_stopped |-> TRUE,
                sort_by |-> "name", sort_order |-> "asc", refresh_interval |-> 60]],
           EmptyDict),
     Input(Url("https://flag"), EmptyDict,
           [SHOW_STOPPED |-> "Yes", SORT_BY |-> "memory", SORT_ORDER |-> "asc",
            CPU_THRESHOLD |-> "80", MEMORY_THRESHOLD |-> "85"]),
     Input(EmptyDict, EmptyDict,
           [TRMNL_WEBHOOK_URL |-> "https://env", SORT_BY |-> "status"]),
     Input(Update(Url("https://flag"), Update(Flag("--loop"), Flag("--demo"))),
           EmptyDict, EmptyDict),
     Input(Update(Url("https://flag"), Flag("--demo")), EmptyDict, EmptyDict),
     Input(Flag("--loop"), EmptyDict, EmptyDict)}

\* the start-ups: each setting absent or given, in each of its three sources
CommandLines ==
    Both(Opt("--webhook-url", {"", "https://flag"}),
         Both(Opt("--config", {"cfg.json", "missing.json"}),
              Opt("--interval", {10, DefaultInterval})))
FileContents ==
    Both(Opt("webhook_url", {"", "https://file"}),
         Both(Opt("refresh_interval", {60}),
              Both(Opt("cpu_threshold", {70}), Opt("show_stopped", {TRUE}))))
FileSystems == Opt("cfg.json", FileContents)
Environments ==
    Both(Opt("TRMNL_WEBHOOK_URL", {"https://env"}),
         Both(Opt("CPU_THRESHOLD", {"90"}),
              Both(Opt("SHOW_STOPPED", {"TRUE", "no"}), Opt("SORT_BY", {"name"}))))
StartupInputs ==
    {Input(l, f, e) : l \in CommandLines, f \in FileSystems, e \in Environments}

DigitChoices == {0, 1, 256, 512, 1023}
ByteCounts == [1..MaxDigits -> DigitChoices]

\* the state before main has run, for one input and one format_bytes argument
Fresh(input, bytes, at) ==
    /\ argv = input.argv
    /\ files = input.files
    /\ environ = input.environ
    /\ args = NoData
    /\ config = EmptyDict
    /\ webhook_url = None
    /\ interval = 0
    /\ pc = at
    /\ exc = "none"
    /\ engine = NoEngine
    /\ containers_list = <<>>
    /\ idx = 0
    /\ container_info = NoInfo
    /\ containers_data = <<>>
    /\ data = NoData
    /\ posts = <<>>
    /\ bytes_value = bytes
    /\ formatted = NoData

NoInput == Input(EmptyDict, EmptyDict, EmptyDict)

Init == \E input \in LoopInputs : Fresh(input, <<>>, "start")
InitConfig == \E input \in StartupInputs : Fresh(input, <<>>, "start")
InitFormat == \E bytes \in ByteCounts : Fresh(NoInput, bytes, "format_bytes")

----------------------------------------------------------------------------
(* Specifications *)

Next ==
    \/ Startup
    \/ GetDemoData
    \/ StartCollect
    \/ BuildInfo
    \/ FormatUptime
    \/ SampleStats
    \/ FinishCollect
    \/ Push
    \/ PushHeartbeat
    \/ Wake
    \/ Interrupt
    \/ InterruptInFormatUptime

\* the monitor, from the command line to the end of the process
Spec == Init /\ [][Next]_vars

\* start-up alone, over every combination of the sources of the settings
SpecConfig == InitConfig /\ [][Startup]_vars

\* format_bytes alone, over the byte counts
SpecFormat == InitFormat /\ [][FormatBytes]_vars

----------------------------------------------------------------------------
(* Properties *)

\* main has parsed the command line
Started == pc \notin {"start", "format_bytes", "formatted"}

IsHeartbeat(payload) == "error" \in DOMAIN payload

\* the payloads of the current tick: the POSTs issued, and the snapshot built
\* and about to be posted
PostedSnapshots == {i \in DOMAIN posts : ~IsHeartbeat(posts[i].payload)}
LiveTick == Started /\ ~args.demo

\* the engine's container behind a record of a live snapshot
Behind(record) ==
    LET i == CHOOSE i \in DOMAIN engine : ShortIds[i] = record.id
    IN  Container(i, engine[i])

HasMessage(record, about) ==
    \E k \in DOMAIN record.alert_messages : record.alert_messages[k].about = about

\* C1: in loop mode no exception raised inside a tick ends the loop: the
\* process never dies of an uncaught exception and never leaves the loop, it
\* only stops on KeyboardInterrupt
C1_TickFailuresIsolated ==
    (Started /\ pc # "exit(1)" /\ args.loop) => pc \notin {"crashed", "done"}

\* C2: a tick whose collection raised DockerException has, once its handler
\* is through, posted exactly one payload, the error heartbeat, and main is
\* where the tick's end takes it (the sleep, in loop mode)
C2_OneHeartbeatThenNextTick ==
    (exc = "DockerException" /\ pc \notin {"docker_error", "stopped"}) =>
        /\ Len(posts) = 1
        /\ posts[1].payload = error_data
        /\ pc = AfterTick

\* C3 as claimed: the process stops on KeyboardInterrupt only from the sleep
\* between ticks
C3_StopsOnlyBetweenTicks == [][pc' = "stopped" => pc = "sleep"]_vars

\* C3 as amended: KeyboardInterrupt can stop the process at every position
\* of the loop, mid-tick too, and the call in flight is then abandoned: no
\* record is appended, no snapshot built, no POST recorded
C3_InterruptStopsAnywhere ==
    /\ [](pc \in {"tick", "container", "uptime", "sample", "push", "docker_error",
                  "sleep"} => ENABLED Interrupt)
    /\ [][pc' = "stopped" =>
            /\ pc \in {"tick", "container", "uptime", "sample", "push", "docker_error",
                       "sleep"}
            /\ UNCHANGED <<containers_data, data, posts>>]_vars

\* C3 witness: stopped while a running container was being sampled
C3_StoppedMidSample ==
    /\ pc = "stopped"
    /\ "uptime" \in DOMAIN container_info
    /\ Len(containers_data) < idx

\* C4: a tick's call of push_to_webhook issues one POST; every call returns,
\* and returns true exactly when a response with a 2xx status came back
C4_TrueIff2xxNeverRaises ==
    /\ Len(posts) <= 1
    /\ \A i \in DOMAIN posts :
        /\ posts[i].returned \in {"True", "False"}
        /\ posts[i].returned = "True" <=>
              /\ posts[i].outcome.kind = "response"
              /\ posts[i].outcome.status \in 200..299

\* the record of a container is what it would be with no failure elsewhere:
\* it is built from its own handle and its own reading (the uptime apart,
\* which depends on the clock)
Unaffected(record, container) ==
    LET built == Update(InfoOfContainer(container),
                        IF container.status = "running"
                        THEN get_container_stats(container, CpuThreshold,
                                                 MemoryThreshold)
                        ELSE NotRunning)
    IN  /\ DOMAIN record \ {"uptime"} = DOMAIN built
        /\ \A f \in DOMAIN built : record[f] = built[f]

\* the record of a container whose sampling failed
ZeroedAlertFree(record, container) ==
    /\ record.id = container.short_id
    /\ record.name = container.name
    /\ record.status = "running"
    /\ record.cpu_percent = 0
    /\ record.memory_percent = 0
    /\ record.has_alert = FALSE
    /\ record.alert_messages = <<>>
    /\ \A f \in DOMAIN record \cap {"memory_usage", "network_rx", "network_tx"} :
          record[f].whole = 0 /\ record[f].tenth = 0

Isolated(payload) ==
    LET listed == ListFrom(engine, 1, Get(config, "show_stopped", FALSE))
    IN  /\ Len(payload.containers) = Len(listed)
        /\ \A i \in DOMAIN listed :
              \E k \in DOMAIN payload.containers :
                 /\ payload.containers[k].id = listed[i].short_id
                 /\ IF listed[i].status = "running" /\ SamplingRaises(listed[i].reading)
                    THEN ZeroedAlertFree(payload.containers[k], listed[i])
                    ELSE Unaffected(payload.containers[k], listed[i])

C6_AlertFlagMatchesMessages ==
    \A i \in DOMAIN posts :
        \A k \in DOMAIN posts[i].payload.containers :
            LET record == posts[i].payload.containers[k]
            IN  record.has_alert <=> record.alert_messages # <<>>

\* C6 witness: a live snapshot was posted with a record alerting on memory
\* alone beside a record with no alert
C6_AlertAndQuietPosted ==
    /\ LiveTick
    /\ \E i \in PostedSnapshots :
          \E k, m \in DOMAIN posts[i].payload.containers :
             /\ posts[i].payload.containers[k].has_alert
             /\ ~HasMessage(posts[i].payload.containers[k], "High CPU usage")
             /\ ~posts[i].payload.containers[m].has_alert

WireFields ==
    {"id", "name", "image", "status", "uptime", "restart_count", "cpu_percent",
     "memory_percent", "memory_usage", "network_rx", "network_tx", "has_alert",
     "alert_messages"}

\* C7: every record of every snapshot posted carries the thirteen fields of
\* the wire format, zero-valued metrics included
C7_AllWireFields ==
    \A i \in PostedSnapshots :
        \A k \in DOMAIN posts[i].payload.containers :
            DOMAIN posts[i].payload.containers[k] = WireFields

\* the running containers of a live snapshot whose sampling went through
Sampled(payload) ==
    {k \in DOMAIN payload.containers :
        /\ payload.containers[k].status = "running"
        /\ ~SamplingRaises(Behind(payload.containers[k]).reading)}

RunningRecords(payload) ==
    {k \in DOMAIN payload.containers : payload.containers[k].status = "running"}

\* C8 as claimed: in a live snapshot each alert is present exactly when the
\* record's own percentage, as published, is at least the threshold; with
\* both present the CPU message comes first
C8_AlertIffRecordAtThreshold ==
    LiveTick =>
        \A i \in PostedSnapshots : \A k \in RunningRecords(posts[i].payload) :
            LET record == posts[i].payload.containers[k]
            IN  /\ HasMessage(record, "High CPU usage")
                      <=> record.cpu_percent >= 10 * CpuThreshold
                /\ HasMessage(record, "High memory usage")
                      <=> record.memory_percent >= 10 * MemoryThreshold
                /\ Len(record.alert_messages) = 2 =>
                      record.alert_messages[1].about = "High CPU usage"

\* C8 as amended: each alert is present exactly when the percentage computed
\* from the samples, before rounding, is at least the threshold. The record
\* carries that percentage rounded to one decimal: an alert implies a
\* published value at or above the threshold, a published value above the
\* threshold implies the alert, and a published value equal to the threshold
\* goes either way. With both present the CPU message comes first
C8_AlertIffUnroundedAtThreshold ==
    LiveTick =>
        \A i \in PostedSnapshots : \A k \in Sampled(posts[i].payload) :
            LET record == posts[i].payload.containers[k]
                reading == Behind(record).reading
                cpu == cpu_percent_of(reading)
                mem == memory_percent_of(reading)
            IN  /\ HasMessage(record, "High CPU usage")
                      <=> cpu.num >= CpuThreshold * cpu.den
                /\ HasMessage(record, "High memory usage")
                      <=> mem.num >= MemoryThreshold * mem.den
                /\ HasMessage(record, "High CPU usage")
                      => record.cpu_percent >= 10 * CpuThreshold
                /\ record.cpu_percent > 10 * CpuThreshold
                      => HasMessage(record, "High CPU usage")
                /\ HasMessage(record, "High memory usage")
                      => record.memory_percent >= 10 * MemoryThreshold
                /\ record.memory_percent > 10 * MemoryThreshold
                      => HasMessage(record, "High memory usage")
                /\ Len(record.alert_messages) <= 2
                /\ Len(record.alert_messages) = 2 =>
                      /\ record.alert_messages[1].about = "High CPU usage"
                      /\ record.alert_messages[2].about = "High memory usage"

\* C8 witness: a live snapshot was posted with a record exactly at the CPU
\* threshold that carries the CPU alert, and a record with both alerts
C8_AtThresholdAndBothPosted ==
    /\ LiveTick
    /\ \E i \in PostedSnapshots :
          \E k, m \in Sampled(posts[i].payload) :
             /\ posts[i].payload.containers[k].cpu_percent = 10 * CpuThreshold
             /\ HasMessage(posts[i].payload.containers[k], "High CPU usage")
             /\ Len(posts[i].payload.containers[m].alert_messages) = 2

\* the byte count with digit v at place i and w at place j, zero elsewhere
Digits2(i, v, j, w) ==
    [k \in 1..MaxDigits |-> IF k = i THEN v ELSE IF k = j THEN w ELSE 0]

\* C9 as claimed: 1023 -> "1023.0B", 1024 -> "1.0KB", 1536 -> "1.5KB",
\* 1024**4 -> "1024.0TB"
C9_BoundariesAsListed ==
    pc = "formatted" =>
        /\ bytes_value = Digits2(1, 1023, 2, 0) => formatted = Str(1023, 0, "B")
        /\ bytes_value = Digits2(1, 0, 2, 1) => formatted = Str(1, 0, "KB")
        /\ bytes_value = Digits2(1, 512, 2, 1) => formatted = Str(1, 5, "KB")
        /\ bytes_value = Digits2(5, 1, 5, 1) => formatted = Str(1024, 0, "TB")

\* C9 as amended: 1023 -> "1023.0B", 1024 -> "1.0KB", 1536 -> "1.5KB",
\* 1024**4 -> "1.0TB" and 1024**5 -> "1024.0TB": the unit is TB from 1024**4
\* on and never advances past it
C9_BoundariesOfTheCode ==
    pc = "formatted" =>
        /\ bytes_value = Digits2(1, 1023, 2, 0) => formatted = Str(1023, 0, "B")
        /\ bytes_value = Digits2(1, 0, 2, 1) => formatted = Str(1, 0, "KB")
        /\ bytes_value = Digits2(1, 512, 2, 1) => formatted = Str(1, 5, "KB")
        /\ bytes_value = Digits2(5, 1, 5, 1) => formatted = Str(1, 0, "TB")
        /\ bytes_value = Digits2(6, 1, 6, 1) => formatted = Str(1024, 0, "TB")
        /\ formatted.unit \in {"B", "KB", "MB", "GB", "TB"}
        /\ formatted.unit = "TB" <=> \E k \in 5..MaxDigits : bytes_value[k] # 0

\* C9 witness: 1024**5 has been formatted
C9_FormattedBeyondTB ==
    pc = "formatted" /\ bytes_value = Digits2(6, 1, 6, 1) /\ formatted.whole = 1024

\* C10: a setting given by its startup flag is the one the loop uses, whatever
\* the config file and the environment say: --webhook-url for the webhook
\* URL and --interval for the refresh interval
C10_FlagsOverrideFileAndEnvironment ==
    pc = "tick" =>
        /\ ("--webhook-url" \in DOMAIN argv /\ argv["--webhook-url"] # "")
              => webhook_url = argv["--webhook-url"]
        /\ "--interval" \in DOMAIN argv => interval = argv["--interval"]

====
